---------------------------- MODULE Spec2Model ----------------------------
(***************************************************************************)
(* Model of src/main.py: a FastAPI wrapper around the AlphaFold DB and     *)
(* UniProt REST services.  The state is the lifespan-managed httpx client  *)
(* and the in-flight requests, each at one of its suspension points        *)
(* (awaiting client.get, asleep in the retry backoff, response ready).     *)
(* A handler runs without interruption between two suspension points, so   *)
(* an action is one such run.                                              *)
(***************************************************************************)
EXTENDS Integers, Sequences, FiniteSets, TLC

(***************************************************************************)
(* JSON values, as json() returns them.  Every value is a record tagged    *)
(* with its type; numbers are held in tenths so that 85.5 is 855 and a     *)
(* number is integral when it is a multiple of 10.  An exception raised by *)
(* a Python expression is the value Exc(name): it propagates through every *)
(* operator applied to it.                                                 *)
(***************************************************************************)
JNull == [t |-> "null"]
JStr(s) == [s |-> s, t |-> "str"]
JNum(n) == [n10 |-> n, t |-> "num"]
JArr(a) == [a |-> a, t |-> "arr"]
JObj(o) == [o |-> o, t |-> "obj"]
Raw == [t |-> "raw"]
Exc(e) == [e |-> e, t |-> "exc"]
None == [t |-> "none"]

EmptyDict == JObj(<<>>)

IsExc(v) == v.t = "exc"

\* A faulty truth test, `x is None` in place of `not x`: an empty list passes.
truthy_only_none(v) == v.t # "null"

\* Python truth value of a JSON value (`not x`).
truthy(v) ==
    CASE v.t = "null" -> FALSE
      [] v.t = "str" -> v.s # ""
      [] v.t = "num" -> v.n10 # 0
      [] v.t = "arr" -> Len(v.a) > 0
      [] v.t = "obj" -> DOMAIN v.o # {}
      [] OTHER -> TRUE

\* d.get(k, default): AttributeError unless d is a dict.
py_get(d, k, default) ==
    IF IsExc(d) THEN d
    ELSE IF d.t = "obj" THEN (IF k \in DOMAIN d.o THEN d.o[k] ELSE default)
    ELSE Exc("AttributeError")

\* d[k] for a string key: KeyError when absent, TypeError unless d is a dict.
py_item(d, k) ==
    IF IsExc(d) THEN d
    ELSE IF d.t = "obj" THEN (IF k \in DOMAIN d.o THEN d.o[k] ELSE Exc("KeyError"))
    ELSE Exc("TypeError")

\* A faulty subscript, x[-1] in place of x[0].
py_index_last(x) ==
    IF IsExc(x) THEN x
    ELSE IF x.t = "arr" THEN (IF Len(x.a) > 0 THEN x.a[Len(x.a)] ELSE Exc("IndexError"))
    ELSE IF x.t = "obj" THEN Exc("KeyError")
    ELSE Exc("TypeError")

\* x[0]: IndexError on an empty list, KeyError on a dict (its keys are strings),
\* TypeError on None and numbers.
py_index0(x) ==
    IF IsExc(x) THEN x
    ELSE IF x.t = "arr" THEN (IF Len(x.a) > 0 THEN x.a[1] ELSE Exc("IndexError"))
    ELSE IF x.t = "obj" THEN Exc("KeyError")
    ELSE Exc("TypeError")

\* str(x) inside an f-string.
py_str(v) ==
    CASE v.t = "str" -> v.s
      [] v.t = "null" -> "None"
      [] OTHER -> "<object>"

\* The first exception of a sequence of evaluated expressions, or None.
FirstExc(vs) ==
    IF \E i \in 1..Len(vs) : IsExc(vs[i])
    THEN vs[CHOOSE i \in 1..Len(vs) : IsExc(vs[i]) /\ \A j \in 1..(i - 1) : ~IsExc(vs[j])]
    ELSE None

(***************************************************************************)
(* Responses.  An exception that is not an HTTPException leaves the        *)
(* handler unhandled and the framework answers 500.                        *)
(***************************************************************************)
NoResp == [status |-> 0, detail |-> "", body |-> JNull]
HTTPException(status_code, detail) == [status |-> status_code, detail |-> detail, body |-> JNull]
Ok(body) == [status |-> 200, detail |-> "", body |-> body]
Unhandled(exc) == [status |-> 500, detail |-> exc.e, body |-> JNull]

RETRIES == 2

(***************************************************************************)
(* PredictedStructure: the pydantic model.  Values of the wrong type are a *)
(* ValidationError; in pydantic's lax mode an int field accepts a numeric  *)
(* string and converts it.                                                 *)
(***************************************************************************)
StrFields == {"entryId", "uniprotAccession"}
OptStrFields == {"uniprotId", "organismScientificName", "modelCreatedDate"}
OptIntFields == {"uniprotStart", "uniprotEnd"}
OptUrlFields == {"pdbUrl", "cifUrl", "paeImageUrl"}
OptFloatFields == {"pLDDT"}
OptFields == OptStrFields \cup OptIntFields \cup OptUrlFields \cup OptFloatFields
Fields == StrFields \cup OptFields

PdbUrl == "https://alphafold.ebi.ac.uk/files/AF-P31645-F1-model_v4.pdb"
CifUrl == "https://alphafold.ebi.ac.uk/files/AF-P31645-F1-model_v4.cif"
PaeUrl == "https://alphafold.ebi.ac.uk/files/AF-P31645-F1-pae.png"
HttpUrls == {PdbUrl, CifUrl, PaeUrl}

\* Numeric strings the int parser accepts, with their value in tenths.
IntLiterals == [s \in {"1"} |-> 10]

\* Validation of one field value against its declared type.
validate_field(f, v) ==
    IF f \in StrFields \cup OptStrFields THEN
        (IF v.t = "str" THEN v ELSE Exc("ValidationError"))
    ELSE IF f \in OptIntFields THEN
        (IF v.t = "num" /\ v.n10 % 10 = 0 THEN v
         ELSE IF v.t = "str" /\ v.s \in DOMAIN IntLiterals THEN JNum(IntLiterals[v.s])
         ELSE Exc("ValidationError"))
    ELSE IF f \in OptUrlFields THEN
        (IF v.t = "str" /\ v.s \in HttpUrls THEN v ELSE Exc("ValidationError"))
    ELSE
        (IF v.t = "num" THEN v ELSE Exc("ValidationError"))

\* PredictedStructure.model_validate(item), serialised through response_model:
\* every declared field is present, an absent or null optional field is null,
\* keys the model does not declare are dropped.
model_validate(item) ==
    IF item.t # "obj" THEN Exc("ValidationError")
    ELSE LET field(f) ==
                 IF f \in DOMAIN item.o /\ ~(f \in OptFields /\ item.o[f] = JNull)
                 THEN validate_field(f, item.o[f])
                 ELSE IF f \in OptFields THEN JNull
                 ELSE Exc("ValidationError")
         IN IF \E f \in Fields : IsExc(field(f))
            THEN Exc("ValidationError")
            ELSE JObj([f \in Fields |-> field(f)])


(***************************************************************************)
(* The handlers, as the code that runs once _get has returned `data`.      *)
(***************************************************************************)
ALPHAFOLD == "alphafold"
UNIPROT == "uniprot"

\* A faulty get_prediction that builds its answer in reverse order.
get_prediction_reversed(uniprot_id, data) ==
    IF data.t # "arr" \/ Len(data.a) = 0
    THEN HTTPException(404, "No prediction found for accession " \o uniprot_id \o ".")
    ELSE LET n == Len(data.a)
             out == [i \in 1..n |-> model_validate(data.a[n + 1 - i])]
         IN IF \E i \in 1..n : IsExc(out[i])
            THEN Unhandled(Exc("ValidationError"))
            ELSE Ok(JArr(out))

\* A faulty get_prediction without the `len(data) == 0` test.
get_prediction_no_len_test(uniprot_id, data) ==
    IF data.t # "arr"
    THEN HTTPException(404, "No prediction found for accession " \o uniprot_id \o ".")
    ELSE LET out == [i \in 1..Len(data.a) |-> model_validate(data.a[i])]
         IN IF \E i \in 1..Len(out) : IsExc(out[i])
            THEN Unhandled(Exc("ValidationError"))
            ELSE Ok(JArr(out))

\* get_prediction after `data = await _get(...)`.
get_prediction(uniprot_id, data) ==
    IF data.t # "arr" \/ Len(data.a) = 0
    THEN HTTPException(404, "No prediction found for accession " \o uniprot_id \o ".")
    ELSE LET out == [i \in 1..Len(data.a) |-> model_validate(data.a[i])]
         IN IF \E i \in 1..Len(out) : IsExc(out[i])
            THEN Unhandled(Exc("ValidationError"))
            ELSE Ok(JArr(out))

\* search_by_gene after `uni = await _get(...)`, up to the second call:
\* either a response (resp.status # 0) or the values extracted from the hit.
search_lookup(query, uni) ==
    LET results == py_get(uni, "results", JNull)
        hit == py_index0(py_item(uni, "results"))
        accession == py_item(hit, "primaryAccession")
        gene_names == py_get(py_get(py_index0(py_get(hit, "genes", JArr(<<EmptyDict>>))),
                                    "geneName", EmptyDict), "value", JStr(""))
        protein_name == py_get(py_get(py_get(py_get(hit, "proteinDescription", EmptyDict),
                                             "recommendedName", EmptyDict),
                                      "fullName", EmptyDict), "value", JStr(""))
        organism == py_get(py_get(hit, "organism", EmptyDict), "scientificName", JStr(""))
        exc == FirstExc(<<hit, accession, gene_names, protein_name, organism>>)
        nothing == [resp |-> NoResp, accession |-> None, gene_names |-> None,
                    protein_name |-> None, organism |-> None]
    IN IF IsExc(results) THEN [nothing EXCEPT !.resp = Unhandled(results)]
       ELSE IF ~truthy(results)
       THEN [nothing EXCEPT !.resp =
                HTTPException(404, "No UniProt entry found for query '" \o query \o "'.")]
       ELSE IF exc # None THEN [nothing EXCEPT !.resp = Unhandled(exc)]
       ELSE [resp |-> NoResp, accession |-> accession, gene_names |-> gene_names,
             protein_name |-> protein_name, organism |-> organism]

\* search_by_gene after `data = await _get(...)` of the second call.
search_result(query, accession, gene_names, protein_name, organism, data) ==
    IF ~truthy(data)
    THEN HTTPException(404, "No AlphaFold prediction for accession " \o py_str(accession) \o ".")
    ELSE LET model == py_index0(data)
             pdbUrl == py_get(model, "pdbUrl", JNull)
             cifUrl == py_get(model, "cifUrl", JNull)
             pLDDT == py_get(model, "pLDDT", JNull)
             exc == FirstExc(<<model, pdbUrl, cifUrl, pLDDT>>)
         IN IF exc # None THEN Unhandled(exc)
            ELSE Ok(JObj([query |-> JStr(query),
                          uniprot_accession |-> accession,
                          gene_name |-> gene_names,
                          protein_name |-> protein_name,
                          organism |-> organism,
                          pdbUrl |-> pdbUrl,
                          cifUrl |-> cifUrl,
                          pLDDT |-> pLDDT,
                          source |-> JStr("AlphaFold DB")]))

(***************************************************************************)
(* What the two upstream services may answer.                              *)
(***************************************************************************)
MaxLen == 2
MaxInflight == 2

Without(o, k) == [x \in DOMAIN o \ {k} |-> o[x]]
With(o, k, v) == [x \in DOMAIN o \cup {k} |-> IF x = k THEN v ELSE o[x]]

FullModel ==
    [entryId |-> JStr("AF-P31645-F1"), uniprotAccession |-> JStr("P31645"),
     uniprotId |-> JStr("SC6A4_HUMAN"), organismScientificName |-> JStr("Homo sapiens"),
     uniprotStart |-> JNum(10), uniprotEnd |-> JNum(6300),
     modelCreatedDate |-> JStr("2022-06-01"),
     pdbUrl |-> JStr(PdbUrl), cifUrl |-> JStr(CifUrl), paeImageUrl |-> JStr(PaeUrl),
     pLDDT |-> JNum(855)]
MinimalModel == [entryId |-> JStr("AF-P05067-F1"), uniprotAccession |-> JStr("P05067")]
PartialModel == With(Without(Without(FullModel, "pdbUrl"), "pLDDT"), "cifUrl", JNull)

\* Records of the prediction service that PredictedStructure accepts as they are.
GoodItems ==
    { JObj(FullModel),
      JObj(PartialModel),
      JObj(With(MinimalModel, "sequence", JStr("METTPLNSQK"))) }
\* Elements it converts or rejects.
OddItems ==
    { JObj(With(FullModel, "uniprotStart", JStr("1"))),
      JObj(Without(FullModel, "entryId")),
      JObj(With(FullModel, "pdbUrl", JStr("n/a"))),
      JStr("AF-P31645-F1") }
Items == GoodItems \cup OddItems

Lists(S, n) == UNION { [1..k -> S] : k \in 0..n }

\* Bodies of a 2xx answer of GET {base}/api/prediction/{accession}.
PredictionBodies ==
    { JArr(a) : a \in Lists(Items, MaxLen) }
    \cup { Raw, JNull, EmptyDict, JObj([error |-> JStr("not found")]) }

FullHit ==
    [primaryAccession |-> JStr("P31645"),
     genes |-> JArr(<<JObj([geneName |-> JObj([value |-> JStr("SLC6A4")])])>>),
     proteinDescription |-> JObj([recommendedName |-> JObj([fullName |->
         JObj([value |-> JStr("Sodium-dependent serotonin transporter")])])]),
     organism |-> JObj([scientificName |-> JStr("Homo sapiens")])]

Hits ==
    { JObj(FullHit),
      JObj([primaryAccession |-> JStr("P05067")]),
      JObj(Without(FullHit, "genes")),
      JObj(With(FullHit, "genes", JArr(<<>>))),
      JObj(With(FullHit, "genes", JArr(<<EmptyDict>>))),
      JObj(With(FullHit, "genes", JArr(<<JObj([geneName |-> EmptyDict])>>))),
      JObj(Without(FullHit, "proteinDescription")),
      JObj(With(FullHit, "proteinDescription", EmptyDict)),
      JObj(With(FullHit, "proteinDescription", JObj([recommendedName |-> EmptyDict]))),
      JObj(With(FullHit, "proteinDescription",
                JObj([recommendedName |-> JObj([fullName |-> EmptyDict])]))),
      JObj(Without(FullHit, "organism")),
      JObj(With(FullHit, "organism", EmptyDict)),
      JObj(Without(FullHit, "primaryAccession")) }

\* Bodies of a 2xx answer of GET {search-base}?query=...&size=1.
SearchBodies ==
    { JObj([results |-> JArr(<<h>>)]) : h \in Hits }
    \cup { Raw, JArr(<<>>), EmptyDict, JObj([results |-> JArr(<<>>)]) }

\* Exceptions client.get and raise_for_status raise.
TransportErrors == {"ConnectTimeout", "ConnectError"}
StatusErrors == {"HTTPStatusError 404", "HTTPStatusError 500"}
Errors == TransportErrors \cup StatusErrors

\* Path parameters of the inbound requests.
Accessions == {"P31645", "P05067"}
Queries == {"SLC6A4", "APP"}

(***************************************************************************)
(* State.                                                                  *)
(*   phase    where the ASGI server is: "init" before the lifespan's       *)
(*            startup, "serving", "stopping" once it accepts no new        *)
(*            request, "stopped" after the lifespan's shutdown             *)
(*   client   app.state.client: "none", "open" or "closed"                 *)
(*   created, closed   how many times the client was built and aclose()d   *)
(*   req      the request slots; req[r] holds the locals of one handler    *)
(*            invocation and of the _get call it is in, and a record of    *)
(*            the traffic: for the _get call in progress, the requests     *)
(*            sent, the attempts failed, the exception client.get or       *)
(*            raise_for_status raised in the last attempt ("None" once an  *)
(*            attempt got a 2xx answer) and the sleeps made; for the whole *)
(*            request, calls, the URLs it has fetched                      *)
(***************************************************************************)
VARIABLES phase, client, created, closed, req

vars == <<phase, client, created, closed, req>>

IdleSlot ==
    [pc |-> "idle", route |-> "", arg |-> "", stage |-> 0,
     url |-> [ep |-> "", arg |-> ""],
     attempt |-> 0, last_exc |-> "None",
     sent |-> 0, fails |-> 0, raised |-> "None", waits |-> <<>>, calls |-> {},
     uni |-> None, data |-> None,
     accession |-> None, gene_names |-> None, protein_name |-> None, organism |-> None,
     resp |-> NoResp]

\* A faulty loop bound, range(RETRIES) in place of range(RETRIES + 1).
range_next_short(attempt) == attempt + 1 < RETRIES

\* `for attempt in range(RETRIES + 1)`: whether another iteration follows.
range_next(attempt) == attempt + 1 <= RETRIES

\* A faulty except clause, `except httpx.TransportError`: status errors escape.
IsTransportError(exc) == exc \in TransportErrors

\* `except httpx.HTTPError`: transport errors and HTTPStatusError derive from it.
IsHTTPError(exc) == exc \in TransportErrors \cup StatusErrors

\* The argument of asyncio.sleep, in hundredths of a second.
backoff(attempt) == 25 * (attempt + 1)

\* `raise HTTPException(status_code=502, ...)` after the loop.
exhausted(last_exc) == HTTPException(502, "Upstream error: " \o last_exc)

\* `await client.get(url, params=params)` up to its suspension.  A closed
\* client refuses with RuntimeError, which `except httpx.HTTPError` lets through.
send(q) ==
    IF client = "open"
    THEN [q EXCEPT !.pc = "await", !.sent = @ + 1,
                   !.calls = @ \cup {[url |-> q.url, live |-> TRUE]}]
    ELSE [q EXCEPT !.pc = "done", !.resp = Unhandled(Exc("RuntimeError")),
                   !.calls = @ \cup {[url |-> q.url, live |-> FALSE]}]

\* Entry of _get(client, url): the first attempt.
enter_get(q, ep, arg) ==
    send([q EXCEPT !.url = [ep |-> ep, arg |-> arg], !.attempt = 0, !.last_exc = "None",
                   !.sent = 0, !.fails = 0, !.raised = "None", !.waits = <<>>])

\* r.json().
json(body) == IF body = Raw THEN Exc("JSONDecodeError") ELSE body

\* The handler's code from the return of _get to its next await or its end.
resume(q, data) ==
    LET ret == [q EXCEPT !.last_exc = "None", !.raised = "None", !.attempt = 0]
    IN IF q.route = "prediction"
       THEN [ret EXCEPT !.pc = "done", !.data = data, !.resp = get_prediction(q.arg, data)]
       ELSE IF q.stage = 1
       THEN LET lk == search_lookup(q.arg, data)
            IN IF lk.resp.status # 0
               THEN [ret EXCEPT !.pc = "done", !.uni = data, !.resp = lk.resp]
               ELSE enter_get([ret EXCEPT !.uni = data, !.stage = 2,
                                          !.accession = lk.accession,
                                          !.gene_names = lk.gene_names,
                                          !.protein_name = lk.protein_name,
                                          !.organism = lk.organism],
                              ALPHAFOLD, py_str(lk.accession))
       ELSE [ret EXCEPT !.pc = "done", !.data = data,
                        !.resp = search_result(q.arg, q.accession, q.gene_names,
                                               q.protein_name, q.organism, data)]

Bodies(ep) == IF ep = ALPHAFOLD THEN PredictionBodies ELSE SearchBodies

(***************************************************************************)
(* Actions.                                                                *)
(***************************************************************************)
\* lifespan, up to `yield`.
Startup ==
    /\ phase = "init"
    /\ client' = "open"
    /\ created' = created + 1
    /\ phase' = "serving"
    /\ UNCHANGED <<closed, req>>

\* An inbound GET reaches its route: the handler runs to its first await.
Receive(r, route, arg) ==
    /\ phase = "serving"
    /\ req[r].pc = "idle"
    /\ req' = [req EXCEPT ![r] =
                 IF route = "prediction"
                 THEN enter_get([IdleSlot EXCEPT !.route = route, !.arg = arg, !.stage = 1],
                                ALPHAFOLD, arg)
                 ELSE enter_get([IdleSlot EXCEPT !.route = route, !.arg = arg, !.stage = 1],
                                UNIPROT, arg)]
    /\ UNCHANGED <<phase, client, created, closed>>

\* client.get or raise_for_status raises exc: the except clause and the sleep.
GetFail(r, exc) ==
    /\ req[r].pc = "await"
    /\ req' = [req EXCEPT ![r] =
                 IF IsHTTPError(exc)
                 THEN [req[r] EXCEPT !.pc = "sleep", !.last_exc = exc,
                                     !.fails = @ + 1, !.raised = exc,
                                     !.waits = Append(@, backoff(req[r].attempt))]
                 ELSE [req[r] EXCEPT !.pc = "done", !.fails = @ + 1, !.raised = exc,
                                     !.resp = Unhandled(Exc(exc))]]
    /\ UNCHANGED <<phase, client, created, closed>>

\* The upstream answers 2xx with `body`: _get returns and the handler goes on.
GetOk(r, body) ==
    /\ req[r].pc = "await"
    /\ body \in Bodies(req[r].url.ep)
    /\ req' = [req EXCEPT ![r] =
                 IF IsExc(json(body))
                 THEN [req[r] EXCEPT !.pc = "done", !.raised = "None",
                                     !.resp = Unhandled(json(body))]
                 ELSE resume(req[r], json(body))]
    /\ UNCHANGED <<phase, client, created, closed>>

\* asyncio.sleep returns: the next iteration of the loop, or the raise after it.
SleepDone(r) ==
    /\ req[r].pc = "sleep"
    /\ req' = [req EXCEPT ![r] =
                 IF range_next(req[r].attempt)
                 THEN send([req[r] EXCEPT !.attempt = @ + 1])
                 ELSE [req[r] EXCEPT !.pc = "done", !.resp = exhausted(req[r].last_exc)]]
    /\ UNCHANGED <<phase, client, created, closed>>

\* The response is sent and the invocation's locals are gone.
Respond(r) ==
    /\ req[r].pc = "done"
    /\ req' = [req EXCEPT ![r] = IdleSlot]
    /\ UNCHANGED <<phase, client, created, closed>>

\* The server is told to stop: it accepts no new request.
StopAccepting ==
    /\ phase = "serving"
    /\ phase' = "stopping"
    /\ UNCHANGED <<client, created, closed, req>>

\* While stopping, the server may cancel a request that is suspended.
Abandon(r) ==
    /\ phase = "stopping"
    /\ req[r].pc \in {"await", "sleep"}
    /\ req' = [req EXCEPT ![r] = IdleSlot]
    /\ UNCHANGED <<phase, client, created, closed>>

\* A faulty lifespan whose shutdown leaves the client open.
LifespanShutdownNoClose ==
    /\ phase = "stopping"
    /\ \A r \in DOMAIN req : req[r].pc = "idle"
    /\ phase' = "stopped"
    /\ UNCHANGED <<client, created, closed, req>>

\* lifespan after `yield`: the server runs it once no request is in flight.
LifespanShutdown ==
    /\ phase = "stopping"
    /\ \A r \in DOMAIN req : req[r].pc = "idle"
    /\ client' = "closed"
    /\ closed' = closed + 1
    /\ phase' = "stopped"
    /\ UNCHANGED <<created, req>>

Boot(slots) ==
    /\ phase = "init"
    /\ client = "none"
    /\ created = 0
    /\ closed = 0
    /\ req = [r \in slots |-> IdleSlot]

\* One request at a time, every answer the upstream services may give.
Init == Boot({1})

Next ==
    \/ Startup
    \/ \E r \in DOMAIN req : \E a \in Accessions : Receive(r, "prediction", a)
    \/ \E r \in DOMAIN req : \E q \in Queries : Receive(r, "search", q)
    \/ \E r \in DOMAIN req : \E exc \in Errors : GetFail(r, exc)
    \/ \E r \in DOMAIN req : \E body \in PredictionBodies \cup SearchBodies : GetOk(r, body)
    \/ \E r \in DOMAIN req : SleepDone(r)
    \/ \E r \in DOMAIN req : Respond(r)
    \/ StopAccepting
    \/ \E r \in DOMAIN req : Abandon(r)
    \/ LifespanShutdown

Spec == Init /\ [][Next]_vars

\* Concurrent requests over the shared client, a few answers each.
LifeBodies == { JArr(<<>>), JArr(<<JObj(FullModel)>>), JObj([results |-> JArr(<<JObj(FullHit)>>)]) }

InitLife == Boot(1..MaxInflight)

NextLife ==
    \/ Startup
    \/ \E r \in DOMAIN req : Receive(r, "prediction", "P31645")
    \/ \E r \in DOMAIN req : Receive(r, "search", "SLC6A4")
    \/ \E r \in DOMAIN req : GetFail(r, "ConnectTimeout")
    \/ \E r \in DOMAIN req : \E body \in LifeBodies : GetOk(r, body)
    \/ \E r \in DOMAIN req : SleepDone(r)
    \/ \E r \in DOMAIN req : Respond(r)
    \/ StopAccepting
    \/ \E r \in DOMAIN req : Abandon(r)
    \/ LifespanShutdown

SpecLife == InitLife /\ [][NextLife]_vars

(***************************************************************************)
(* Properties.                                                             *)
(***************************************************************************)
Slots == DOMAIN req
Attempts == RETRIES + 1

\* The sleeps of a _get call that has failed n times, as section 4.2 gives them.
Backoffs(n) == [i \in 1..n |-> 25 * i]

\* The result set of a knowledge-base answer is missing or empty.
ZeroResults(uni) ==
    uni.t = "obj" /\ ("results" \notin DOMAIN uni.o \/ uni.o.results = JArr(<<>>))

\* The knowledge-base answer holds a hit, a JSON object.
HasHit(uni) ==
    /\ uni.t = "obj"
    /\ "results" \in DOMAIN uni.o
    /\ uni.o.results.t = "arr"
    /\ Len(uni.o.results.a) > 0
    /\ uni.o.results.a[1].t = "obj"

HitOf(uni) == uni.o.results.a[1]

\* Lookups that yield None for an absent key or index.
SafeKey(v, k) == IF v.t = "obj" /\ k \in DOMAIN v.o THEN v.o[k] ELSE None
SafeFirst(v) == IF v.t = "arr" /\ Len(v.a) > 0 THEN v.a[1] ELSE None
OrEmpty(v) == IF v = None THEN JStr("") ELSE v
OrNull(v) == IF v = None THEN JNull ELSE v

\* An element of the prediction payload that is a record of the data model:
\* the two identifiers are strings and every known field it carries has the
\* declared type.
IsRecord(item) ==
    /\ item.t = "obj"
    /\ \A f \in StrFields : f \in DOMAIN item.o /\ item.o[f].t = "str"
    /\ \A f \in OptFields \cap DOMAIN item.o :
          \/ item.o[f] = JNull
          \/ f \in OptStrFields /\ item.o[f].t = "str"
          \/ f \in OptIntFields /\ item.o[f].t = "num" /\ item.o[f].n10 % 10 = 0
          \/ f \in OptUrlFields /\ item.o[f].t = "str" /\ item.o[f].s \in HttpUrls
          \/ f \in OptFloatFields /\ item.o[f].t = "num"

\* C1: when every attempt of a _get call fails, the handler answers 502 after
\* exactly RETRIES + 1 = 3 requests, and the detail embeds the exception of
\* the last failed attempt.
C1_ExhaustionIs502AfterThree ==
    \A r \in Slots :
        LET q == req[r]
        IN /\ q.sent <= Attempts
           /\ (q.fails = Attempts => q.pc \in {"sleep", "done"})
           /\ (q.pc = "done" /\ q.raised # "None" =>
                  /\ q.resp.status = 502
                  /\ q.sent = Attempts
                  /\ q.fails = Attempts
                  /\ q.resp.detail = "Upstream error: " \o q.raised)
           /\ (q.resp.status = 502 => q.fails = Attempts /\ q.sent = Attempts)

C1_Witness ==
    \E r \in Slots :
        /\ req[r].pc = "done"
        /\ req[r].resp.status = 502
        /\ req[r].fails = Attempts
        /\ req[r].raised = "ConnectTimeout"

\* C2: a search whose knowledge-base lookup succeeds with missing or empty
\* `results` answers 404 naming the query, and the request never fetches
\* the prediction endpoint.
C2_ZeroResultsIs404NoStructureCall ==
    \A r \in Slots :
        LET q == req[r]
        IN (q.route = "search" /\ q.uni # None /\ ZeroResults(q.uni)) =>
              /\ q.pc = "done"
              /\ q.resp = HTTPException(404,
                     "No UniProt entry found for query '" \o q.arg \o "'.")
              /\ \A c \in q.calls : c.url.ep # ALPHAFOLD

C2_Witness ==
    \E r \in Slots :
        /\ req[r].route = "search"
        /\ req[r].uni = JObj([results |-> JArr(<<>>)])
        /\ req[r].resp.status = 404

C4_EmptyPredictionIs404NotRetried ==
    \A r \in Slots :
        LET q == req[r]
        IN (/\ q.route = "prediction"
            /\ q.data # None
            /\ (q.data.t # "arr" \/ Len(q.data.a) = 0)) =>
              /\ q.pc = "done"
              /\ q.resp = HTTPException(404,
                     "No prediction found for accession " \o q.arg \o ".")
              /\ q.sent = q.fails + 1
              /\ Len(q.waits) = q.fails

C4_Witness ==
    \E r \in Slots :
        /\ req[r].route = "prediction"
        /\ req[r].data = JArr(<<>>)
        /\ req[r].resp.status = 404
        /\ req[r].fails = 1

\* C5: for every knowledge-base hit, whatever level of genes[0].geneName.value,
\* proteinDescription.recommendedName.fullName.value or
\* organism.scientificName is absent (genes absent or empty included), the
\* extraction does not fail: the value is the empty string and the handler
\* goes on to the prediction call.
C5_AbsentLevelsDegradeToEmpty ==
    \A r \in Slots :
        LET q == req[r]
            hit == HitOf(q.uni)
        IN (/\ q.route = "search"
            /\ q.uni # None
            /\ HasHit(q.uni)
            /\ SafeKey(hit, "primaryAccession") # None) =>
              /\ q.stage = 2
              /\ q.gene_names =
                    OrEmpty(SafeKey(SafeKey(SafeFirst(SafeKey(hit, "genes")),
                                            "geneName"), "value"))
              /\ q.protein_name =
                    OrEmpty(SafeKey(SafeKey(SafeKey(SafeKey(hit, "proteinDescription"),
                                                    "recommendedName"), "fullName"), "value"))
              /\ q.organism = OrEmpty(SafeKey(SafeKey(hit, "organism"), "scientificName"))

\* C6: every request ends with a success or with status 404 or 502, whatever
\* the upstream services answer.
C6_OnlyOk404Or502 ==
    \A r \in Slots : req[r].pc = "done" => req[r].resp.status \in {200, 404, 502}

C8_SearchUsesHitAccessionAndFirstModel ==
    \A r \in Slots :
        LET q == req[r]
            hit == HitOf(q.uni)
            first == q.data.a[1]
        IN q.route = "search" =>
              /\ \A c \in q.calls : c.url.ep = ALPHAFOLD =>
                    /\ q.uni # None
                    /\ HasHit(q.uni)
                    /\ SafeKey(hit, "primaryAccession") # None
                    /\ c.url.arg = hit.o.primaryAccession.s
              /\ (q.data = JArr(<<>>) =>
                    q.resp = HTTPException(404,
                        "No AlphaFold prediction for accession "
                            \o hit.o.primaryAccession.s \o "."))
              /\ (q.data # None /\ q.data.t = "arr" /\ Len(q.data.a) > 0
                     /\ q.data.a[1].t = "obj" => q.resp.status = 200)
              /\ (q.resp.status = 200 =>
                    /\ q.resp.body.o.query = JStr(q.arg)
                    /\ q.resp.body.o.uniprot_accession = hit.o.primaryAccession
                    /\ q.resp.body.o.pdbUrl = OrNull(SafeKey(first, "pdbUrl"))
                    /\ q.resp.body.o.cifUrl = OrNull(SafeKey(first, "cifUrl"))
                    /\ q.resp.body.o.pLDDT = OrNull(SafeKey(first, "pLDDT")))

C8_Witness ==
    \E r \in Slots :
        /\ req[r].route = "search"
        /\ req[r].resp.status = 200
        /\ req[r].data = JArr(<<JObj(PartialModel), JObj(FullModel)>>)
        /\ req[r].resp.body.o.pdbUrl = JNull

\* C9: _get treats a non-2xx status of any class like a transport failure:
\* each is followed by the same sleep and retried, each ends in 502 after
\* RETRIES + 1 requests, and none is turned into a 404.
C9_FailureCausesAlike ==
    \A r \in Slots :
        LET q == req[r]
        IN q.raised \in Errors =>
              /\ q.pc \in {"sleep", "await", "done"}
              /\ q.waits = Backoffs(q.fails)
              /\ (q.pc = "sleep" => q.sent = q.fails)
              /\ (q.pc = "await" => q.sent = q.fails + 1)
              /\ (q.pc = "done" => q.resp.status = 502 /\ q.sent = Attempts)
              /\ q.resp.status # 404

C9_Witness ==
    \E r \in Slots :
        /\ req[r].pc = "done"
        /\ req[r].resp.status = 502
        /\ req[r].raised = "HTTPStatusError 404"

\* C10: within one _get call every sleep is followed by another attempt: after
\* failed attempt n the call sleeps 0.25 * n s and retries, and it stops at
\* the first success or right after the failure of attempt RETRIES + 1.
C10_EveryBackoffThenRetry ==
    \A r \in Slots :
        LET q == req[r]
        IN /\ q.waits = Backoffs(Len(q.waits))
           /\ (q.pc = "sleep" => Len(q.waits) = q.sent /\ q.sent < Attempts)
           /\ (q.pc \in {"await", "done"} /\ q.sent > 0 => Len(q.waits) = q.sent - 1)

=============================================================================
